---- MODULE Spec2Model ----
(***************************************************************************)
(* A model of src/aggregator.py: the Aggregator facade, the vertical       *)
(* (row-wise group-and-reduce) and horizontal (column-wise collapse)       *)
(* aggregation strategies, and the supernode resolution they share.        *)
(*                                                                         *)
(* A pandas DataFrame is modelled column-wise:                             *)
(*   [nrows |-> number of rows, columns |-> sequence of columns]           *)
(* and a column as [name, dtype, s, n]: an "object" column keeps its       *)
(* string cells in s (n is empty), a "number" column keeps its numeric     *)
(* cells in n (s is empty).  A numeric cell is an exact non-negative       *)
(* rational <<numerator, denominator>> in lowest terms, so that mean() is  *)
(* computed and not approximated; int64/float64 are not distinguished and  *)
(* float rounding is not modelled.  Index labels are not modelled (only    *)
(* the number of rows), and no cell is NaN.                                *)
(***************************************************************************)
EXTENDS Integers, Sequences, FiniteSets, TLC

VARIABLES
    data,                  \* Aggregator.data: the bound table (mutated in place by calls)
    aggregation_strategy,  \* Aggregator.aggregation_strategy
    supernodes,            \* Aggregator.supernodes: ordered <<[name, children]>>
    alpha2_dict,           \* the content of config/alpha2.json read by alpha2()
    original,              \* the table as it was when the Aggregator was constructed
    bound_from,            \* where the constructor's table came from: the loader or a result
    binds,                 \* how many Aggregators have been constructed on a result
    call                   \* the last call: its entry point, the table it found, what it returned

vars == <<data, aggregation_strategy, supernodes, alpha2_dict, original,
          bound_from, binds, call>>

----------------------------------------------------------------------------
(* Bounds of the model and the sets the inputs are drawn from.             *)

MaxRows == 2
MaxChildren == 2
MaxBinds == 1

NodeOrder == <<"A", "B", "X">>
Nodes == {NodeOrder[i] : i \in DOMAIN NodeOrder}
SuperNames == {"X", "Y"}
FromEnds == {"A", "B"}
ToEnds == {"B", "X"}

----------------------------------------------------------------------------
(* Sequences.                                                              *)

Range(s) == {s[i] : i \in DOMAIN s}

SeqsUpTo(S, n) == UNION {[1..k -> S] : k \in 0..n}

NonEmptySeqsUpTo(S, n) == UNION {[1..k -> S] : k \in 1..n}

\* The elements of s at the positions idx, in the order of idx.
Pick(s, idx) == [k \in DOMAIN idx |-> s[idx[k]]]

\* The positions 1..n that satisfy keep, ascending.
RECURSIVE PositionsFrom(_, _, _)
PositionsFrom(i, n, keep) ==
    IF i > n THEN <<>>
    ELSE IF keep[i] THEN <<i>> \o PositionsFrom(i + 1, n, keep)
    ELSE PositionsFrom(i + 1, n, keep)

\* s without the later repetitions of an element (first-seen order).
RECURSIVE FirstSeen(_, _)
FirstSeen(s, seen) ==
    IF s = <<>> THEN <<>>
    ELSE IF Head(s) \in seen THEN FirstSeen(Tail(s), seen)
    ELSE <<Head(s)>> \o FirstSeen(Tail(s), seen \cup {Head(s)})

----------------------------------------------------------------------------
(* Numbers: exact non-negative rationals <<n, d>> in lowest terms.         *)

RECURSIVE GCD(_, _)
GCD(a, b) == IF b = 0 THEN a ELSE GCD(b, a % b)

QNorm(n, d) == LET g == GCD(n, d) IN <<n \div g, d \div g>>

Num(k) == <<k, 1>>

QAdd(p, q) == QNorm(p[1] * q[2] + q[1] * p[2], p[2] * q[2])

QDiv(p, k) == QNorm(p[1], p[2] * k)

RECURSIVE QSum(_)
QSum(s) == IF s = <<>> THEN Num(0) ELSE QAdd(Head(s), QSum(Tail(s)))

----------------------------------------------------------------------------
(* Tables.                                                                 *)

ObjectCol(name, cells) == [name |-> name, dtype |-> "object", s |-> cells, n |-> <<>>]

NumberCol(name, cells) == [name |-> name, dtype |-> "number", s |-> <<>>, n |-> cells]

EmptyTable == [nrows |-> 0, columns |-> <<>>]

ColNames(t) == [i \in DOMAIN t.columns |-> t.columns[i].name]

HasCol(t, c) == \E i \in DOMAIN t.columns : t.columns[i].name = c

Col(t, c) == t.columns[CHOOSE i \in DOMAIN t.columns : t.columns[i].name = c]

\* data[name] = series: an existing column is replaced where it stands, a new
\* one is appended as the last column.
SetCol(t, col) ==
    IF HasCol(t, col.name)
    THEN [t EXCEPT !.columns =
             [i \in DOMAIN t.columns |->
                 IF t.columns[i].name = col.name THEN col ELSE t.columns[i]]]
    ELSE [t EXCEPT !.columns = Append(t.columns, col)]

\* data.drop(labels, axis=1): every column whose name is among the labels goes.
DropCols(t, labels) ==
    LET keep == [i \in DOMAIN t.columns |-> t.columns[i].name \notin labels]
    IN [t EXCEPT !.columns = Pick(t.columns, PositionsFrom(1, Len(t.columns), keep))]

\* data[mask]: the rows at the positions idx, every column kept.
TakeRows(t, idx) ==
    [nrows |-> Len(idx),
     columns |-> [i \in DOMAIN t.columns |->
         IF t.columns[i].dtype = "object"
         THEN ObjectCol(t.columns[i].name, Pick(t.columns[i].s, idx))
         ELSE NumberCol(t.columns[i].name, Pick(t.columns[i].n, idx))]]

\* What a call returns: a table, or the exception it raised.
Returned(t) == [kind |-> "table", table |-> t]

Raised(e) == [kind |-> e, table |-> EmptyTable]

----------------------------------------------------------------------------
(* VerticalAggregationStrategy.                                            *)

RECURSIVE map_supernode_from(_, _, _)
map_supernode_from(node, sn, i) ==
    IF i > Len(sn) THEN node
    ELSE IF node \in Range(sn[i].children) THEN sn[i].name
    ELSE map_supernode_from(node, sn, i + 1)

\* A faulty variant of map_supernode, for the sensitivity of C4: the loop does
\* not return at the first match, so the last matching supernode wins.
RECURSIVE map_supernode_keep_going(_, _, _, _)
map_supernode_keep_going(node, sn, i, found) ==
    IF i > Len(sn) THEN found
    ELSE IF node \in Range(sn[i].children)
    THEN map_supernode_keep_going(node, sn, i + 1, sn[i].name)
    ELSE map_supernode_keep_going(node, sn, i + 1, found)

map_supernode_last(node, sn) == map_supernode_keep_going(node, sn, 1, node)

map_supernode(node, sn) == map_supernode_from(node, sn, 1)

\* data[col].apply(lambda x: self.map_supernode(x, supernodes))
ApplyMap(col, sn) ==
    ObjectCol(col.name, [r \in DOMAIN col.s |-> map_supernode(col.s[r], sn)])

\* A faulty variant of TransmissionMask, for the sensitivity of C2: the filter
\* is left out and every row is kept.
TransmissionMask_all(t, g) == [r \in 1..t.nrows |-> TRUE]

\* The rows data[g0] != data[g1] keeps.
TransmissionMask(t, g) ==
    [r \in 1..t.nrows |-> Col(t, g[1]).s[r] # Col(t, g[2]).s[r]]

\* aggregate(): data is the caller's table after the in-place column
\* assignments, frame the (possibly filtered) frame handed to groupby.
aggregate(d, sn, strategy) ==
    LET g == strategy.group_by_cols
        d1 == SetCol(d, ApplyMap(Col(d, g[1]), sn))
        d2 == IF strategy.transmission
              THEN SetCol(d1, ApplyMap(Col(d1, g[2]), sn))
              ELSE d1
        frame == IF strategy.transmission
                 THEN TakeRows(d2, PositionsFrom(1, d2.nrows, TransmissionMask(d2, g)))
                 ELSE d2
    IN [data |-> d2, frame |-> frame]

\* The group key of row r: its cells in the grouping columns.
KeyOf(t, g, r) == [k \in DOMAIN g |-> Col(t, g[k]).s[r]]

\* The group key of every row.
RowKeys(t, g) == [r \in 1..t.nrows |-> KeyOf(t, g, r)]

\* groupby(g, sort=False): the distinct keys in first-seen order.
GroupKeys(rowkeys) == FirstSeen(rowkeys, {})

\* A faulty variant of Members, for the sensitivity of C1: only the first row
\* of a group is reduced.
Members_first(rowkeys, key) ==
    <<CHOOSE r \in DOMAIN rowkeys :
        /\ rowkeys[r] = key
        /\ \A q \in DOMAIN rowkeys : rowkeys[q] = key => r <= q>>

\* The rows of one group, ascending.
Members(rowkeys, key) ==
    PositionsFrom(1, Len(rowkeys), [r \in DOMAIN rowkeys |-> rowkeys[r] = key])

\* groupby(g, as_index=False, sort=False).<how>(): the key columns first, then
\* one reduced column per remaining column, in the frame's column order.
\* sum(self.agg_col) and mean(self.agg_col) pass the column name as the first
\* positional parameter, which is numeric_only: a non-empty string is truthy,
\* so every numeric column is reduced and every other column is left out.
\* count() counts the cells of every remaining column.
GroupReduce(t, g, how) ==
    LET rowkeys == RowKeys(t, g)
        keys == GroupKeys(rowkeys)
        members == [j \in DOMAIN keys |-> Members(rowkeys, keys[j])]
        keycols == [k \in DOMAIN g |->
                       ObjectCol(g[k], [j \in DOMAIN keys |-> keys[j][k]])]
        taken == [i \in DOMAIN t.columns |->
                     /\ t.columns[i].name \notin Range(g)
                     /\ (how = "count" \/ t.columns[i].dtype = "number")]
        others == Pick(t.columns, PositionsFrom(1, Len(t.columns), taken))
        reduced(c, m) ==
            CASE how = "sum" -> QSum(Pick(c.n, m))
              [] how = "mean" -> QDiv(QSum(Pick(c.n, m)), Len(m))
              [] OTHER -> Num(Len(m))
        valcols == [i \in DOMAIN others |->
                       NumberCol(others[i].name,
                                 [j \in DOMAIN keys |-> reduced(others[i], members[j])])]
    IN [nrows |-> Len(keys), columns |-> keycols \o valcols]

\* A faulty variant of Vertical_sum, for the sensitivity of C8: the group is
\* counted (as agg does) instead of summed.
Vertical_sum_counting(d, sn, strategy) ==
    LET a == aggregate(d, sn, strategy)
    IN [ret |-> Returned(GroupReduce(a.frame, strategy.group_by_cols, "count")),
        data |-> a.data]

Vertical_sum(d, sn, strategy) ==
    LET a == aggregate(d, sn, strategy)
    IN [ret |-> Returned(GroupReduce(a.frame, strategy.group_by_cols, "sum")),
        data |-> a.data]

Vertical_mean(d, sn, strategy) ==
    LET a == aggregate(d, sn, strategy)
    IN [ret |-> Returned(GroupReduce(a.frame, strategy.group_by_cols, "mean")),
        data |-> a.data]

Vertical_agg(d, sn, strategy) ==
    LET a == aggregate(d, sn, strategy)
    IN [ret |-> Returned(GroupReduce(a.frame, strategy.group_by_cols, "count")),
        data |-> a.data]

----------------------------------------------------------------------------
(* HorizontalAggregationStrategy.                                          *)

\* alpha2_dict.get(node, node)
Alias(dict, node) == IF node \in DOMAIN dict THEN dict[node] ELSE node

\* [alpha2_dict.get(node, node) for node in child_nodes
\*                              if alpha2_dict.get(node, node) in data.columns]
EffectiveChildren(d, children, dict) ==
    LET mapped == [k \in DOMAIN children |-> Alias(dict, children[k])]
        present == [k \in DOMAIN mapped |-> HasCol(d, mapped[k])]
    IN Pick(mapped, PositionsFrom(1, Len(mapped), present))

\* alpha2(): every supernode with its effective child-column list, computed
\* once, against the columns the table has when the call starts.
alpha2(d, sn, dict) ==
    [i \in DOMAIN sn |->
        [name |-> sn[i].name, children |-> EffectiveChildren(d, sn[i].children, dict)]]

\* mean()'s dict comprehension: the supernodes with a non-empty list.
NonEmpty(eff) ==
    Pick(eff, PositionsFrom(1, Len(eff), [i \in DOMAIN eff |-> Len(eff[i].children) # 0]))

\* data[nodes].<how>(axis=1): row by row over the listed columns, a column
\* listed twice counted twice; the sum over no column is 0.
RowWise(d, nodes, how) ==
    [r \in 1..d.nrows |->
        LET total == QSum([k \in DOMAIN nodes |-> Col(d, nodes[k]).n[r]])
        IN IF how = "sum" THEN total ELSE QDiv(total, Len(nodes))]

\* The loop of sum() and mean() from supernode i on.  data[nodes] raises
\* KeyError when a listed column is no longer in the table; what the loop did
\* to the table before that stays done.
RECURSIVE horizontal_loop(_, _, _, _)
horizontal_loop(d, eff, i, how) ==
    IF i > Len(eff) THEN [ret |-> Returned(d), data |-> d]
    ELSE LET nodes == eff[i].children
         IN IF \E k \in DOMAIN nodes : ~HasCol(d, nodes[k])
            THEN [ret |-> Raised("KeyError"), data |-> d]
            ELSE LET d1 == SetCol(d, NumberCol(eff[i].name, RowWise(d, nodes, how)))
                     d2 == DropCols(d1, Range(nodes))
                 IN horizontal_loop(d2, eff, i + 1, how)

Horizontal_sum(d, sn, dict) == horizontal_loop(d, alpha2(d, sn, dict), 1, "sum")

Horizontal_mean(d, sn, dict) == horizontal_loop(d, NonEmpty(alpha2(d, sn, dict)), 1, "mean")

----------------------------------------------------------------------------
(* Aggregator: each entry point calls the bound strategy's method of the   *)
(* same name on the bound table and supernode map.                         *)

Aggregator_sum(d, sn, strategy, dict) ==
    IF strategy.kind = "Vertical" THEN Vertical_sum(d, sn, strategy)
    ELSE Horizontal_sum(d, sn, dict)

Aggregator_mean(d, sn, strategy, dict) ==
    IF strategy.kind = "Vertical" THEN Vertical_mean(d, sn, strategy)
    ELSE Horizontal_mean(d, sn, dict)

\* A faulty variant of Aggregator_agg, for the sensitivity of C6: the
\* horizontal strategy answers agg with the table as it is.
Aggregator_agg_inherited(d, sn, strategy, dict) ==
    IF strategy.kind = "Vertical" THEN Vertical_agg(d, sn, strategy)
    ELSE [ret |-> Returned(d), data |-> d]

\* HorizontalAggregationStrategy defines no agg and AggregationStrategy
\* declares none: the attribute lookup raises AttributeError before anything
\* is called.
Aggregator_agg(d, sn, strategy, dict) ==
    IF strategy.kind = "Vertical" THEN Vertical_agg(d, sn, strategy)
    ELSE [ret |-> Raised("AttributeError"), data |-> d]

----------------------------------------------------------------------------
(* The inputs: the tables the loader hands over have at least one row, and  *)
(* a vertical table holds the columns its strategy is configured with (a    *)
(* missing grouping column is not modelled).                               *)

\* Child lists: the subsets of Nodes of at most MaxChildren names, each in
\* NodeOrder (the order within a child list changes no result of the code).
ChildLists ==
    {Pick(NodeOrder, PositionsFrom(1, Len(NodeOrder), [i \in DOMAIN NodeOrder |-> i \in S])) :
        S \in {T \in SUBSET DOMAIN NodeOrder : Cardinality(T) <= MaxChildren}}

\* A dict: its keys are distinct, its insertion order is kept.
SupernodeMaps ==
    {m \in SeqsUpTo([name : SuperNames, children : ChildLists], Cardinality(SuperNames)) :
        \A i, j \in DOMAIN m : i # j => m[i].name # m[j].name}

\* A node table is grouped on its one node column; an edge table on its two
\* endpoint columns, with the transmission filter.
NodeStrategy ==
    [kind |-> "Vertical", group_by_cols |-> <<"node">>, agg_col |-> "val",
     transmission |-> FALSE]

EdgeStrategy ==
    [kind |-> "Vertical", group_by_cols |-> <<"from", "to">>, agg_col |-> "val",
     transmission |-> TRUE]

\* HorizontalAggregationStrategy() has no fields; the three are placeholders.
HorizontalStrategy ==
    [kind |-> "Horizontal", group_by_cols |-> <<>>, agg_col |-> "", transmission |-> FALSE]

\* Row r of a loaded table carries the value 2^(r-1) in its value column, so
\* that a total tells which rows it adds up, and 1 in a further numeric column.
RowValue(r) == 2 ^ (r - 1)

\* A node table: the node column, a text column, the value column and a
\* further numeric column.
NodeTable(rows) ==
    [nrows |-> Len(rows),
     columns |-> <<ObjectCol("node", rows),
                   ObjectCol("unit", [r \in DOMAIN rows |-> "MW"]),
                   NumberCol("val", [r \in DOMAIN rows |-> Num(RowValue(r))]),
                   NumberCol("aux", [r \in DOMAIN rows |-> Num(1)])>>]

NodeTables == {NodeTable(rows) : rows \in NonEmptySeqsUpTo(Nodes, MaxRows)}

\* An edge table: the two endpoint columns, the value column and a further
\* numeric column.
EdgeTable(rows) ==
    [nrows |-> Len(rows),
     columns |-> <<ObjectCol("from", [r \in DOMAIN rows |-> rows[r][1]]),
                   ObjectCol("to", [r \in DOMAIN rows |-> rows[r][2]]),
                   NumberCol("val", [r \in DOMAIN rows |-> Num(RowValue(r))]),
                   NumberCol("aux", [r \in DOMAIN rows |-> Num(1)])>>]

EdgeTables == {EdgeTable(rows) : rows \in NonEmptySeqsUpTo(FromEnds \X ToEnds, MaxRows)}

\* A time-series table: one numeric column per node, in any column order.
HorizontalHeaders ==
    {h \in SeqsUpTo(Nodes, Len(NodeOrder)) :
        /\ h # <<>>
        /\ \A i, j \in DOMAIN h : i # j => h[i] # h[j]}

\* The cell of node NodeOrder[p] in row r is r * 3^(p-1): the cells of a row
\* differ, and a row-wise total tells which columns it adds up, and how often.
CellValue(name, r) ==
    r * 3 ^ ((CHOOSE p \in DOMAIN NodeOrder : NodeOrder[p] = name) - 1)

HorizontalTable(h, nrows) ==
    [nrows |-> nrows,
     columns |-> [i \in DOMAIN h |->
                     NumberCol(h[i], [r \in 1..nrows |-> Num(CellValue(h[i], r))])]]

HorizontalTables ==
    {HorizontalTable(h, nrows) : h \in HorizontalHeaders, nrows \in 1..MaxRows}

\* alpha2.json: it maps nothing, or it renames node B to column A (a child
\* list naming A and B then lists column A twice).
AliasTables == {<<>>, [k \in {"B"} |-> "A"]}

----------------------------------------------------------------------------
(* The state machine.                                                      *)

NoCall == [op |-> "none", input |-> EmptyTable, ret |-> Raised("none")]

InitVertical ==
    /\ aggregation_strategy \in {NodeStrategy, EdgeStrategy}
    /\ supernodes \in SupernodeMaps
    /\ alpha2_dict = <<>>
    /\ data \in IF aggregation_strategy = NodeStrategy THEN NodeTables ELSE EdgeTables
    /\ original = data
    /\ bound_from = "loader"
    /\ binds = 0
    /\ call = NoCall

InitHorizontal ==
    /\ aggregation_strategy = HorizontalStrategy
    /\ supernodes \in SupernodeMaps
    /\ alpha2_dict \in AliasTables
    /\ data \in HorizontalTables
    /\ original = data
    /\ bound_from = "loader"
    /\ binds = 0
    /\ call = NoCall

Init == InitVertical \/ InitHorizontal

\* Aggregator.sum()
Sum ==
    LET r == Aggregator_sum(data, supernodes, aggregation_strategy, alpha2_dict)
    IN /\ data' = r.data
       /\ call' = [op |-> "sum", input |-> data, ret |-> r.ret]
       /\ UNCHANGED <<aggregation_strategy, supernodes, alpha2_dict, original,
                      bound_from, binds>>

\* Aggregator.mean()
Mean ==
    LET r == Aggregator_mean(data, supernodes, aggregation_strategy, alpha2_dict)
    IN /\ data' = r.data
       /\ call' = [op |-> "mean", input |-> data, ret |-> r.ret]
       /\ UNCHANGED <<aggregation_strategy, supernodes, alpha2_dict, original,
                      bound_from, binds>>

\* Aggregator.agg()
Agg ==
    LET r == Aggregator_agg(data, supernodes, aggregation_strategy, alpha2_dict)
    IN /\ data' = r.data
       /\ call' = [op |-> "agg", input |-> data, ret |-> r.ret]
       /\ UNCHANGED <<aggregation_strategy, supernodes, alpha2_dict, original,
                      bound_from, binds>>

\* Aggregator(result, aggregation_strategy, supernodes): a new Aggregator is
\* constructed on the table the last sum() returned.
Rebind ==
    /\ binds < MaxBinds
    /\ call.op = "sum"
    /\ call.ret.kind = "table"
    /\ data' = call.ret.table
    /\ original' = call.ret.table
    /\ bound_from' = call.op
    /\ binds' = binds + 1
    /\ call' = NoCall
    /\ UNCHANGED <<aggregation_strategy, supernodes, alpha2_dict>>

Next == Sum \/ Mean \/ Agg \/ Rebind

Spec == Init /\ [][Next]_vars

SpecVertical == InitVertical /\ [][Next]_vars

SpecHorizontal == InitHorizontal /\ [][Next]_vars

----------------------------------------------------------------------------
(* What the properties below are stated with.                              *)

IsVertical == aggregation_strategy.kind = "Vertical"

IsHorizontal == aggregation_strategy.kind = "Horizontal"

\* Node resolution as specified: the first supernode, in the map's order,
\* whose child list contains the node; the node itself when there is none.
FirstMatch(node, sn) ==
    LET hits == {i \in DOMAIN sn : \E k \in DOMAIN sn[i].children : sn[i].children[k] = node}
    IN IF hits = {} THEN node
       ELSE sn[CHOOSE i \in hits : \A j \in hits : i <= j].name

\* The grouping key row r of table t resolves to: the first key column is
\* always resolved, the second one under transmission.
ResolvedKey(t, r) ==
    LET g == aggregation_strategy.group_by_cols
    IN [k \in DOMAIN g |->
           IF k = 1 \/ aggregation_strategy.transmission
           THEN FirstMatch(Col(t, g[k]).s[r], supernodes)
           ELSE Col(t, g[k]).s[r]]

\* The rows that are grouped: all of them, or under transmission those whose
\* two resolved endpoints differ.
GroupedRows(t) ==
    {r \in 1..t.nrows :
        aggregation_strategy.transmission => ResolvedKey(t, r)[1] # ResolvedKey(t, r)[2]}

\* The arithmetic total of the cells at the rows S.
RECURSIVE TotalOver(_, _)
TotalOver(S, cells) ==
    IF S = {} THEN Num(0)
    ELSE LET r == CHOOSE x \in S : TRUE
         IN QAdd(cells[r], TotalOver(S \ {r}, cells))

\* The columns some supernode's effective child list names, for table t.
EffectiveChildColumns(t) ==
    UNION {Range(EffectiveChildren(t, supernodes[i].children, alpha2_dict)) :
              i \in DOMAIN supernodes}

----------------------------------------------------------------------------
(* C1.  Vertical sum returns exactly one row per distinct resolved grouping *)
(* key of the rows it groups, and the value of that row is the arithmetic  *)
(* total of the value column over all input rows whose key resolves to     *)
(* that group.                                                             *)

C1_VerticalSumTotals ==
    (IsVertical /\ call.op = "sum") =>
        LET g == aggregation_strategy.group_by_cols
            val == aggregation_strategy.agg_col
            inp == call.input
            out == call.ret.table
        IN /\ call.ret.kind = "table"
           /\ \A r \in GroupedRows(inp) :
                 Cardinality({j \in 1..out.nrows : KeyOf(out, g, j) = ResolvedKey(inp, r)}) = 1
           /\ \A j \in 1..out.nrows :
                 LET rows == {r \in GroupedRows(inp) : ResolvedKey(inp, r) = KeyOf(out, g, j)}
                 IN /\ rows # {}
                    /\ Col(out, val).n[j] = TotalOver(rows, Col(inp, val).n)

\* A sum over a table in which two rows with different nodes resolve to the
\* same supernode, and a third group exists beside theirs.
C1_Witness ==
    /\ IsVertical /\ call.op = "sum" /\ call.ret.kind = "table"
    /\ ~aggregation_strategy.transmission
    /\ \E r, q \in 1..call.input.nrows :
          /\ r # q
          /\ KeyOf(call.input, aggregation_strategy.group_by_cols, r)
                # KeyOf(call.input, aggregation_strategy.group_by_cols, q)
          /\ ResolvedKey(call.input, r) = ResolvedKey(call.input, q)
          /\ ResolvedKey(call.input, r)[1] \in SuperNames

----------------------------------------------------------------------------
(* C2.  Under transmission both grouping-key columns are resolved to their *)
(* supernodes, every row whose two resolved keys are equal is dropped and  *)
(* every row whose two resolved keys differ is kept: no group of the       *)
(* output has equal keys, every row with differing keys has its group in   *)
(* the output, and agg counts exactly the rows with differing keys.        *)

C2_TransmissionFilter ==
    (IsVertical /\ aggregation_strategy.transmission /\ call.op \in {"sum", "mean", "agg"}) =>
        LET g == aggregation_strategy.group_by_cols
            inp == call.input
            out == call.ret.table
            end(r, k) == FirstMatch(Col(inp, g[k]).s[r], supernodes)
        IN /\ call.ret.kind = "table"
           /\ \A k \in {1, 2} : \A r \in 1..inp.nrows : Col(data, g[k]).s[r] = end(r, k)
           /\ \A j \in 1..out.nrows : Col(out, g[1]).s[j] # Col(out, g[2]).s[j]
           /\ \A r \in 1..inp.nrows :
                 end(r, 1) # end(r, 2) =>
                     \E j \in 1..out.nrows : KeyOf(out, g, j) = <<end(r, 1), end(r, 2)>>
           /\ call.op = "agg" =>
                 \A j \in 1..out.nrows :
                     Col(out, "val").n[j] =
                         Num(Cardinality({r \in 1..inp.nrows :
                                 <<end(r, 1), end(r, 2)>> = KeyOf(out, g, j)}))

\* A call under transmission that drops a row whose endpoints differ in the
\* table and resolve to the same supernode, and keeps another row.
C2_Witness ==
    /\ IsVertical /\ aggregation_strategy.transmission /\ call.op = "sum"
    /\ call.ret.kind = "table" /\ call.ret.table.nrows >= 1
    /\ \E r \in 1..call.input.nrows :
          /\ Col(call.input, "from").s[r] # Col(call.input, "to").s[r]
          /\ FirstMatch(Col(call.input, "from").s[r], supernodes)
                = FirstMatch(Col(call.input, "to").s[r], supernodes)

----------------------------------------------------------------------------
(* C4.  map_supernode returns the first supernode, in the map's insertion  *)
(* order, whose child list contains the node, and the node itself when no  *)
(* child list contains it, for every string; and that is what a vertical   *)
(* call leaves in the first grouping-key column.                           *)

C4_NodeResolution ==
    /\ \A node \in Nodes \cup SuperNames \cup {"", "Q"} :
          map_supernode(node, supernodes) = FirstMatch(node, supernodes)
    /\ (IsVertical /\ call.op # "none") =>
          LET c == aggregation_strategy.group_by_cols[1]
          IN \A r \in 1..call.input.nrows :
                Col(data, c).s[r] = FirstMatch(Col(call.input, c).s[r], supernodes)

\* A call that resolved a node listed by two supernodes to the first of them,
\* and left a node no supernode lists as it was.
C4_Witness ==
    /\ IsVertical /\ call.op = "sum" /\ Len(supernodes) = 2
    /\ LET c == aggregation_strategy.group_by_cols[1]
       IN /\ \E r \in 1..call.input.nrows :
                /\ Col(call.input, c).s[r] \in Range(supernodes[1].children)
                /\ Col(call.input, c).s[r] \in Range(supernodes[2].children)
                /\ Col(data, c).s[r] = supernodes[1].name
          /\ \E r \in 1..call.input.nrows :
                /\ \A i \in DOMAIN supernodes :
                      Col(call.input, c).s[r] \notin Range(supernodes[i].children)
                /\ Col(data, c).s[r] = Col(call.input, c).s[r]

----------------------------------------------------------------------------
(* C6.  agg() on an Aggregator bound to the horizontal strategy fails (the *)
(* strategy has no such operation: AttributeError), returns no table and   *)
(* leaves the bound table unchanged; agg() returns a table exactly when    *)
(* the Aggregator is bound to the vertical strategy.                       *)

C6_CountOnlyVertical ==
    call.op = "agg" =>
        /\ IsHorizontal => (call.ret = Raised("AttributeError") /\ data = call.input)
        /\ call.ret.kind = "table" <=> IsVertical

\* agg() was called on a horizontal Aggregator with a table and supernodes
\* that sum() would have collapsed.
C6_Witness ==
    /\ IsHorizontal /\ call.op = "agg" /\ call.ret.kind = "AttributeError"
    /\ call.input.nrows >= 1
    /\ \E i \in DOMAIN supernodes :
          EffectiveChildren(call.input, supernodes[i].children, alpha2_dict) # <<>>

----------------------------------------------------------------------------
(* C8.  As claimed: for every table and supernode map, vertical sum on the *)
(* output of a vertical sum returns a table equal to that output.          *)

C8_IdempotentForEveryMap ==
    (IsVertical /\ call.op = "sum" /\ bound_from = "sum" /\ call.input = original) =>
        call.ret = Returned(call.input)

\* Every supernode name resolves to itself: it is in no child list, or the
\* first supernode that lists it is that supernode.
SupernodesResolveToThemselves ==
    \A i \in DOMAIN supernodes :
        FirstMatch(supernodes[i].name, supernodes) = supernodes[i].name

(* C8, amended.  For every table and every supernode map in which every    *)
(* supernode name resolves to itself, vertical sum on the output of a      *)
(* vertical sum returns a table equal to that output.                      *)

C8_IdempotentWhenSupernodesFixed ==
    (/\ IsVertical /\ call.op = "sum" /\ bound_from = "sum" /\ call.input = original
     /\ SupernodesResolveToThemselves) =>
        call.ret = Returned(call.input)

\* A sum over the output of a sum that had merged two rows under a supernode.
C8_Witness ==
    /\ IsVertical /\ call.op = "sum" /\ bound_from = "sum" /\ call.input = original
    /\ SupernodesResolveToThemselves
    /\ call.ret.kind = "table"
    /\ \E j \in 1..call.input.nrows :
          /\ Col(call.input, aggregation_strategy.group_by_cols[1]).s[j] \in SuperNames
          /\ Col(call.input, "aux").n[j] = Num(2)

----------------------------------------------------------------------------
(* C3.  As claimed: for every table and supernode map, horizontal sum      *)
(* completes without error and returns a table that holds, for every       *)
(* supernode, a column named after it equal to the row-wise sum of its     *)
(* effective child columns, and holds none of the child columns.           *)

C3_HorizontalSumCollapses ==
    (IsHorizontal /\ call.op = "sum") =>
        LET inp == call.input
            out == call.ret.table
            eff == alpha2(inp, supernodes, alpha2_dict)
        IN /\ call.ret.kind = "table"
           /\ \A i \in DOMAIN eff :
                 /\ HasCol(out, eff[i].name)
                 /\ Col(out, eff[i].name).n = RowWise(inp, eff[i].children, "sum")
           /\ \A c \in EffectiveChildColumns(inp) : ~HasCol(out, c)

----------------------------------------------------------------------------
(* C5.  As claimed: for a supernode whose effective child-column list is   *)
(* empty, horizontal mean emits no column for it (a column of that name is *)
(* in the output only as the input had it), whereas horizontal sum emits a *)
(* column for it whose every cell is zero.                                 *)

C5_EmptyGroupAsymmetry ==
    (IsHorizontal /\ call.op \in {"sum", "mean"}) =>
        LET inp == call.input
            out == call.ret.table
            eff == alpha2(inp, supernodes, alpha2_dict)
        IN \A i \in DOMAIN eff :
              eff[i].children = <<>> =>
                  IF call.op = "mean"
                  THEN (call.ret.kind = "table" /\ HasCol(out, eff[i].name)) =>
                           (HasCol(inp, eff[i].name)
                            /\ Col(out, eff[i].name) = Col(inp, eff[i].name))
                  ELSE /\ call.ret.kind = "table"
                       /\ HasCol(out, eff[i].name)
                       /\ Col(out, eff[i].name).n = [r \in 1..inp.nrows |-> Num(0)]

----------------------------------------------------------------------------
(* C7.  As claimed: every call returns what the same call returns as the   *)
(* first call on a freshly constructed Aggregator bound to the original    *)
(* table and supernode map.                                                *)

C7_CallsIndependent ==
    /\ call.op = "sum" =>
          call.ret = Aggregator_sum(original, supernodes, aggregation_strategy, alpha2_dict).ret
    /\ call.op = "mean" =>
          call.ret = Aggregator_mean(original, supernodes, aggregation_strategy, alpha2_dict).ret
    /\ call.op = "agg" =>
          call.ret = Aggregator_agg(original, supernodes, aggregation_strategy, alpha2_dict).ret

----------------------------------------------------------------------------
(* C9.  As claimed: vertical sum and mean reduce exactly the one named     *)
(* value column: the output holds the grouping-key columns and the reduced *)
(* value column, and no other column of the input.                         *)

C9_OnlyTheValueColumn ==
    (IsVertical /\ call.op \in {"sum", "mean"}) =>
        /\ call.ret.kind = "table"
        /\ ColNames(call.ret.table) =
              aggregation_strategy.group_by_cols \o <<aggregation_strategy.agg_col>>

----------------------------------------------------------------------------
(* C10.  As claimed: after horizontal sum or mean every input column that  *)
(* is no effective child column of a supernode is in the output with every *)
(* cell unchanged and in the same relative order, also when it has the     *)
(* name of a supernode, and the new supernode columns come after them in   *)
(* supernode iteration order.                                              *)

C10_PassThrough ==
    (IsHorizontal /\ call.op \in {"sum", "mean"}) =>
        LET inp == call.input
            out == call.ret.table
            all == alpha2(inp, supernodes, alpha2_dict)
            eff == IF call.op = "sum" THEN all ELSE NonEmpty(all)
            passing == [i \in DOMAIN inp.columns |->
                           inp.columns[i].name \notin EffectiveChildColumns(inp)]
            pass == Pick(inp.columns, PositionsFrom(1, Len(inp.columns), passing))
        IN /\ call.ret.kind = "table"
           /\ Len(out.columns) = Len(pass) + Len(eff)
           /\ \A i \in DOMAIN pass : out.columns[i] = pass[i]
           /\ \A i \in DOMAIN eff : out.columns[Len(pass) + i].name = eff[i].name

====
